---- MODULE Spec2Model ----
(***************************************************************************)
(* bootimage: the test subcommand (src/src/subcommand/test.rs) and the     *)
(* disk image assembly (src/src/build.rs).                                 *)
(*                                                                         *)
(* Text is a sequence of one-character strings, a file is a sequence of    *)
(* bytes (0..255).  An Option is a record with a field "some".             *)
(***************************************************************************)
EXTENDS Integers, Sequences, FiniteSets, TLC

VARIABLES
    hes,         \* the last call of handle_exit_status: arguments and return
    ntargets,    \* test: the number of test targets (test_targets.len())
    tpc,         \* test: where each target's task is in the par_iter closure
    child,       \* test: each target's QEMU process
    exit_status, \* test: the exit code each QEMU process ended with
    serial,      \* test: the content of each target's serial output file
    calls,       \* test: the calls each task made on its child, in order
    killer,      \* test: the task whose kill() ended each QEMU process (0: none)
    task_result, \* test: what each task's closure returned
    mpc,         \* test: where the test command is
    tests,       \* test: the collected Vec<(String, TestResult)>
    report,      \* test: the lines the aggregate step wrote to stderr
    kib,         \* the last call of create_kernel_info_block: arguments and return
    ipc,         \* build: where build_impl / create_disk_image is
    kernel,      \* build: the kernel file (its size, a u64, and its content)
    maybe_package,        \* build: the package file, if configured
    minimum_image_size,   \* build: config.minimum_image_size
    bi_kernel_size,       \* build_impl: kernel_size, read from the metadata
    bi_package_size,      \* build_impl: maybe_package_size, read from the metadata
    kernel_info_block,    \* build_impl: the block, once built
    bootloader_data,      \* build_impl: the bytes of the .bootloader section
    output_file, \* build: the file at output_path, if there is one
    old_output,  \* build: the file at output_path before the build
    copy,        \* write_file_to_file: data_size, acc, the read position, interruptions
    segments,    \* create_disk_image: per copied file, the sizes around its padding
    before_min   \* create_disk_image: the output when the minimum size is applied

decodeVars == <<hes>>
runnerVars == <<ntargets, tpc, child, exit_status, serial, calls, killer,
                task_result, mpc, tests, report>>
infoVars == <<kib>>
imageVars == <<ipc, kernel, maybe_package, minimum_image_size, bi_kernel_size,
               bi_package_size, kernel_info_block, bootloader_data, output_file,
               old_output, copy, segments, before_min>>
vars == <<decodeVars, runnerVars, infoVars, imageVars>>

(***************************************************************************)
(* Bounds of the model.                                                    *)
(***************************************************************************)
\* a serial text is a concatenation of at most MaxChunks tokens
MaxChunks == 2
\* exit codes 0..MaxCode (and 42) are tried
MaxCode == 8
\* the test command runs at most NumTargets test targets
NumTargets == 2
\* a kernel file has at most MaxBlocks whole blocks before its last bytes
MaxBlocks == 2
\* a read that returns less than the buffer returns ShortRead bytes
ShortRead == 300
\* a copy is interrupted at most MaxInterrupts times
MaxInterrupts == 1

(***************************************************************************)
(* Option, strings.                                                        *)
(***************************************************************************)
None == [some |-> FALSE]
Some(v) == [some |-> TRUE, val |-> v]

Min(S) == CHOOSE x \in S : \A y \in S : x <= y

\* str::starts_with
StartsWith(s, p) == Len(s) >= Len(p) /\ SubSeq(s, 1, Len(p)) = p

\* str::find: the byte index (from 0) of the first occurrence
Find(s, p) ==
    LET idx == {i \in 0..(Len(s) - Len(p)) : SubSeq(s, i + 1, i + Len(p)) = p}
    IN  IF idx = {} THEN None ELSE Some(Min(idx))

\* the slice s[n..]
From(s, n) == SubSeq(s, n + 1, Len(s))

\* str::split_at(n).1
SplitAtSnd(s, n) == From(s, n)

\* str::lines: split at "\n", a "\r" right before it dropped, no empty last line
RECURSIVE Lines(_)
Lines(s) ==
    IF s = <<>> THEN <<>>
    ELSE LET nl == Find(s, <<"\n">>)
         IN  IF ~nl.some THEN <<s>>
             ELSE LET raw == SubSeq(s, 1, nl.val)
                      line == IF Len(raw) > 0 /\ raw[Len(raw)] = "\r"
                              THEN SubSeq(raw, 1, Len(raw) - 1)
                              ELSE raw
                  IN  <<line>> \o Lines(From(s, nl.val + 1))

\* "{}" of an exit code
DigitChars == <<"0", "1", "2", "3", "4", "5", "6", "7", "8", "9">>
RECURSIVE Decimal(_)
Decimal(n) ==
    IF n < 10 THEN <<DigitChars[n + 1]>>
    ELSE Decimal(n \div 10) \o <<DigitChars[(n % 10) + 1]>>

OK_MARKER == <<"o", "k", "\n">>
FAILED_MARKER == <<"f", "a", "i", "l", "e", "d", "\n">>

\* the line each  writeln!(io::stderr(), "    {}", line)  writes
IndentLine(line) == <<" ", " ", " ", " ">> \o line
Indented(ls) == [i \in 1..Len(ls) |-> IndentLine(ls[i])]

FAIL_ == <<"F", "A", "I", "L", ":">>
FailNoExitCode == FAIL_ \o <<" ", "N", "o", " ", "E", "x", "i", "t", " ", "C", "o", "d", "e", ".">>
FailInvalidOutput == FAIL_ \o <<" ", "I", "n", "v", "a", "l", "i", "d", " ", "O", "u", "t", "p", "u", "t", ":">>
FailInvalidExitCode(code) ==
    FAIL_ \o <<" ", "I", "n", "v", "a", "l", "i", "d", " ", "E", "x", "i", "t", " ", "C", "o", "d", "e", " ">>
          \o Decimal(code) \o <<":">>
FailTarget(target_name) == FAIL_ \o <<" ">> \o target_name
OkTarget(target_name) == <<"O", "K", ":", " ">> \o target_name

(***************************************************************************)
(* handle_exit_status.  The return value: the TestResult, the lines        *)
(* written to stderr and the lines printed to stdout.                      *)
(***************************************************************************)
TestResult == {"Ok", "Failed", "TimedOut", "Invalid"}

Ret(result, err, out) == [result |-> result, stderr |-> err, stdout |-> out]

\* exit_status.code() is None
ArmNoCode(output) ==
    Ret("Invalid", <<FailNoExitCode>> \o Indented(Lines(output)), <<>>)

\* ArmCode1 with the marker's length off by one
ArmCode1_SliceAt6(output, target_name) ==
    IF StartsWith(output, OK_MARKER)
    THEN Ret("Ok", <<>>, <<OkTarget(target_name)>>)
    ELSE IF StartsWith(output, FAILED_MARKER)
    THEN Ret("Failed", <<FAIL_>> \o Indented(Lines(From(output, 6))), <<>>)
    ELSE Ret("Invalid", <<FailInvalidOutput>> \o Indented(Lines(output)), <<>>)

\* 0 << 1 | 1
ArmCode1(output, target_name) ==
    IF StartsWith(output, OK_MARKER)
    THEN Ret("Ok", <<>>, <<OkTarget(target_name)>>)
    ELSE IF StartsWith(output, FAILED_MARKER)
    THEN Ret("Failed", <<FAIL_>> \o Indented(Lines(From(output, 7))), <<>>)
    ELSE Ret("Invalid", <<FailInvalidOutput>> \o Indented(Lines(output)), <<>>)

\* 2 << 1 | 1
ArmCode5(output, target_name) ==
    Ret("Ok", <<>>, <<OkTarget(target_name)>>)

\* ArmCode7 with the lost marker taken for an undecodable run
ArmCode7_LostMarkerInvalid(output, target_name) ==
    LET fail_index == Find(output, FAILED_MARKER)
    IN  IF fail_index.some
        THEN LET fail_output == SplitAtSnd(output, fail_index.val)
             IN  Ret("Failed", <<FAIL_>> \o Indented(Lines(From(fail_output, 7))), <<>>)
        ELSE Ret("Invalid", <<FailTarget(target_name)>>, <<>>)

\* 3 << 1 | 1
ArmCode7(output, target_name) ==
    LET fail_index == Find(output, FAILED_MARKER)
    IN  IF fail_index.some
        THEN LET fail_output == SplitAtSnd(output, fail_index.val)
             IN  Ret("Failed", <<FAIL_>> \o Indented(Lines(From(fail_output, 7))), <<>>)
        ELSE Ret("Failed", <<FailTarget(target_name)>>, <<>>)

\* every other code
ArmOtherCode(code, output) ==
    Ret("Invalid", <<FailInvalidExitCode(code)>> \o Indented(Lines(output)), <<>>)

handle_exit_status(exit_code, output, target_name) ==
    IF ~exit_code.some THEN ArmNoCode(output)
    ELSE CASE exit_code.val = 1 -> ArmCode1(output, target_name)
           [] exit_code.val = 5 -> ArmCode5(output, target_name)
           [] exit_code.val = 7 -> ArmCode7(output, target_name)
           [] OTHER -> ArmOtherCode(exit_code.val, output)

(***************************************************************************)
(* The inputs of handle_exit_status.                                       *)
(***************************************************************************)
Tokens ==
    { OK_MARKER, FAILED_MARKER,
      <<"o", "k">>, <<"f", "a", "i", "l">>, <<"e", "d", "\n">>,
      <<"X", "\n">>, <<"\n">>, <<"Y", "\r", "\n">>, <<"z">>,
      <<"z", "f", "a", "i", "l", "e", "d", "\n">>,
      <<"r", "e", "a", "s", "o", "n", " ", "h", "e", "r", "e", "\n">> }

RECURSIVE TextsOf(_)
TextsOf(n) ==
    IF n = 0 THEN {<<>>}
    ELSE LET prev == TextsOf(n - 1)
         IN  prev \cup {t \o c : t \in prev, c \in Tokens}

Texts == TextsOf(MaxChunks)

ExitCodes == {None} \cup {Some(c) : c \in (0..MaxCode) \cup {42}}

\* the names of the test targets: "test-a", "test-b", ...
Letters == <<"a", "b", "c", "d", "e", "f", "g", "h">>
TargetName(i) == <<"t", "e", "s", "t", "-", Letters[i]>>
TargetNames == {TargetName(1), TargetName(2)}

HesIdle == [called |-> FALSE]

\* the test command, not running
RunnerIdle ==
    /\ ntargets = 0
    /\ tpc = <<>> /\ child = <<>> /\ exit_status = <<>> /\ serial = <<>>
    /\ calls = <<>> /\ killer = <<>> /\ task_result = <<>>
    /\ mpc = "idle" /\ tests = None /\ report = <<>>

KibIdle == [called |-> FALSE]

\* no read position: no file is being copied
NoCopy == [data_size |-> 0, acc |-> 0, pos |-> 0, interrupted |-> 0]

\* build_impl, not running
ImageIdle ==
    /\ ipc = "idle"
    /\ kernel = None /\ maybe_package = None /\ minimum_image_size = None
    /\ bi_kernel_size = None /\ bi_package_size = None
    /\ kernel_info_block = None /\ bootloader_data = <<>>
    /\ output_file = None /\ old_output = None
    /\ copy = NoCopy /\ segments = <<>> /\ before_min = None

InitDecode == hes = HesIdle /\ RunnerIdle /\ kib = KibIdle /\ ImageIdle

\* one call, then the return to the caller
HesCall ==
    /\ ~hes.called
    /\ \E code \in ExitCodes, output \in Texts, target_name \in TargetNames :
        hes' = [called |-> TRUE, exit_code |-> code, output |-> output,
                target_name |-> target_name,
                ret |-> handle_exit_status(code, output, target_name)]
    /\ UNCHANGED <<runnerVars, infoVars, imageVars>>

HesReturn ==
    /\ hes.called
    /\ hes' = HesIdle
    /\ UNCHANGED <<runnerVars, infoVars, imageVars>>

NextDecode == HesCall \/ HesReturn

SpecDecode == InitDecode /\ [][NextDecode]_vars

(***************************************************************************)
(* The test command: one task per test target (the par_iter closure), the  *)
(* collect into a Result, the aggregate step.                              *)
(*                                                                         *)
(* child[t]: "none" (not spawned), "running", "exited" (ended, not yet     *)
(* waited for) or "reaped".  task_result[t]: "none", "Err", or the         *)
(* TestResult of Ok((name, test_result)).                                  *)
(***************************************************************************)
Targets == 1..ntargets

\* how a QEMU process can end by itself: its exit code and the serial text
RunOutcomes ==
    { [code |-> Some(1), text |-> OK_MARKER],
      [code |-> Some(1), text |-> FAILED_MARKER \o <<"X", "\n">>],
      [code |-> Some(1), text |-> <<"z">>],
      [code |-> Some(5), text |-> <<>>],
      [code |-> Some(7), text |-> <<"z">> \o FAILED_MARKER \o <<"X", "\n">>],
      [code |-> Some(3), text |-> <<"X", "\n">>],
      [code |-> None, text |-> <<>>] }

Init ==
    /\ hes = HesIdle
    /\ kib = KibIdle
    /\ ImageIdle
    /\ ntargets \in 0..NumTargets
    /\ tpc = [t \in Targets |-> "queued"]
    /\ child = [t \in Targets |-> "none"]
    /\ exit_status = [t \in Targets |-> None]
    /\ serial = [t \in Targets |-> <<>>]
    /\ calls = [t \in Targets |-> <<>>]
    /\ killer = [t \in Targets |-> 0]
    /\ task_result = [t \in Targets |-> "none"]
    /\ mpc = "collect"
    /\ tests = None
    /\ report = <<>>

mainVars == <<ntargets, mpc, tests, report>>

\* "?" on an Err: the closure returns the error
Fail(t) ==
    /\ task_result' = [task_result EXCEPT ![t] = "Err"]
    /\ tpc' = [tpc EXCEPT ![t] = "done"]

\* Return with a verdict other than Ok turned into an error of the run
Return_NotOkIsErr(t, r) ==
    /\ task_result' = [task_result EXCEPT ![t] = IF r = "Ok" THEN r ELSE "Err"]
    /\ tpc' = [tpc EXCEPT ![t] = "done"]

\* Ok((target.name.clone(), test_result))
Return(t, r) ==
    /\ task_result' = [task_result EXCEPT ![t] = r]
    /\ tpc' = [tpc EXCEPT ![t] = "done"]

\* the task's calls so far, each with whether it succeeded
Called(t, cs) == calls' = [calls EXCEPT ![t] = @ \o cs]
Did(c) == [call |-> c, ok |-> TRUE]
Failed(c) == [call |-> c, ok |-> FALSE]

\* command.spawn()
Spawn(t) ==
    /\ mpc = "collect" /\ tpc[t] = "queued"
    /\ \/ /\ Called(t, <<Did("spawn")>>)
          /\ child' = [child EXCEPT ![t] = "running"]
          /\ tpc' = [tpc EXCEPT ![t] = "wait_timeout"]
          /\ UNCHANGED task_result
       \/ /\ Called(t, <<Failed("spawn")>>)
          /\ Fail(t)
          /\ UNCHANGED child
    /\ UNCHANGED <<hes, kib, imageVars, exit_status, serial, killer, mainVars>>

\* collecting into a Result stops feeding items once one closure returned Err
Skip(t) ==
    /\ mpc = "collect" /\ tpc[t] = "queued"
    /\ \E u \in Targets : task_result[u] = "Err"
    /\ tpc' = [tpc EXCEPT ![t] = "skipped"]
    /\ UNCHANGED <<hes, kib, imageVars, child, exit_status, serial, calls, killer, task_result, mainVars>>

\* QEMU ends by itself
ChildExits(t) ==
    /\ child[t] = "running"
    /\ \E o \in RunOutcomes :
        /\ exit_status' = [exit_status EXCEPT ![t] = Some(o.code)]
        /\ serial' = [serial EXCEPT ![t] = o.text]
    /\ child' = [child EXCEPT ![t] = "exited"]
    /\ UNCHANGED <<hes, kib, imageVars, tpc, calls, killer, task_result, mainVars>>

\* child.wait_timeout(timeout): Some(exit_status), None after 60 seconds, or Err
WaitTimeout(t) ==
    /\ tpc[t] = "wait_timeout"
    /\ \/ /\ child[t] = "exited"
          /\ Called(t, <<Did("wait_timeout")>>)
          /\ child' = [child EXCEPT ![t] = "reaped"]
          /\ tpc' = [tpc EXCEPT ![t] = "read_output"]
          /\ UNCHANGED task_result
       \/ /\ child[t] = "running"
          /\ Called(t, <<Did("wait_timeout")>>)
          /\ tpc' = [tpc EXCEPT ![t] = "kill"]
          /\ UNCHANGED <<child, task_result>>
       \/ /\ Called(t, <<Failed("wait_timeout")>>)
          /\ Fail(t)
          /\ UNCHANGED child
    /\ UNCHANGED <<hes, kib, imageVars, exit_status, serial, killer, mainVars>>

\* the process child.kill() of task t signals
KillTarget(t) == t

\* child.kill()
Kill(t) ==
    /\ tpc[t] = "kill"
    /\ \/ LET k == KillTarget(t)
          IN  /\ Called(t, <<Did("kill")>>)
              /\ IF child[k] = "running"
                 THEN /\ child' = [child EXCEPT ![k] = "exited"]
                      /\ exit_status' = [exit_status EXCEPT ![k] = Some(None)]
                      /\ killer' = [killer EXCEPT ![k] = t]
                 ELSE UNCHANGED <<child, exit_status, killer>>
              /\ tpc' = [tpc EXCEPT ![t] = "wait"]
              /\ UNCHANGED task_result
       \/ /\ Called(t, <<Failed("kill")>>)
          /\ Fail(t)
          /\ UNCHANGED <<child, exit_status, killer>>
    /\ UNCHANGED <<hes, kib, imageVars, serial, mainVars>>

\* child.wait(), then test_result = TimedOut and writeln!(io::stderr(), "Timed Out")
Wait(t) ==
    /\ tpc[t] = "wait"
    /\ \/ /\ child[t] = "exited"
          /\ child' = [child EXCEPT ![t] = "reaped"]
          /\ \/ /\ Called(t, <<Did("wait"), Did("writeln")>>)
                /\ Return(t, "TimedOut")
             \/ /\ Called(t, <<Did("wait"), Failed("writeln")>>)
                /\ Fail(t)
       \/ /\ Called(t, <<Failed("wait")>>)
          /\ Fail(t)
          /\ UNCHANGED child
    /\ UNCHANGED <<hes, kib, imageVars, exit_status, serial, killer, mainVars>>

\* fs::read_to_string(&output_file), then handle_exit_status
ReadOutput(t) ==
    /\ tpc[t] = "read_output"
    /\ \/ /\ Called(t, <<Failed("read_to_string")>>)
          /\ Fail(t)
       \/ LET ret == handle_exit_status(exit_status[t].val, serial[t], TargetName(t))
          IN  \/ /\ Called(t, <<Did("read_to_string"), Did("handle_exit_status")>>)
                 /\ Return(t, ret.result)
              \/ /\ ret.stderr # <<>>
                 /\ Called(t, <<Did("read_to_string"), Failed("handle_exit_status")>>)
                 /\ Fail(t)
    /\ UNCHANGED <<hes, kib, imageVars, child, exit_status, serial, killer, mainVars>>

\* every item was either run to its return or not fed to the closure
AllTasksFinished == \A t \in Targets : tpc[t] \in {"done", "skipped"}

\* .collect::<Result<Vec<(String, TestResult)>, Error>>()?
Collect ==
    /\ mpc = "collect"
    /\ AllTasksFinished
    /\ IF \A t \in Targets : task_result[t] \in TestResult
       THEN /\ tests' = Some([t \in Targets |->
                                [name |-> TargetName(t), result |-> task_result[t]]])
            /\ mpc' = "aggregate"
       ELSE /\ mpc' = "returned_err"
            /\ UNCHANGED tests
    /\ UNCHANGED <<hes, kib, imageVars, ntargets, report, tpc, child, exit_status, serial, calls,
                   killer, task_result>>

\* {:?} of a TestResult
DebugName(r) ==
    CASE r = "Ok" -> <<"O", "k">>
      [] r = "Failed" -> <<"F", "a", "i", "l", "e", "d">>
      [] r = "TimedOut" -> <<"T", "i", "m", "e", "d", "O", "u", "t">>
      [] r = "Invalid" -> <<"I", "n", "v", "a", "l", "i", "d">>

TheFollowingTestsFailed ==
    <<"T", "h", "e", " ", "f", "o", "l", "l", "o", "w", "i", "n", "g", " ",
      "t", "e", "s", "t", "s", " ", "f", "a", "i", "l", "e", "d", ":">>

\* "    {}: {:?}"
ReportLine(test) == IndentLine(test.name \o <<":", " ">> \o DebugName(test.result))

\* AllOk with any() for all()
AllOk_Any(ts) == \E i \in 1..Len(ts) : ts[i].result = "Ok"

\* tests.iter().all(|t| t.1 == TestResult::Ok)
AllOk(ts) == \A i \in 1..Len(ts) : ts[i].result = "Ok"

\* tests.iter().filter(|t| t.1 != TestResult::Ok)
NotOk(ts) == SelectSeq(ts, LAMBDA test : test.result # "Ok")

\* the lines of the else branch, in order
FailureReport(ts) ==
    <<TheFollowingTestsFailed>> \o [i \in 1..Len(NotOk(ts)) |-> ReportLine(NotOk(ts)[i])]

\* the aggregate step; a failed write to stderr returns by "?"
Aggregate ==
    /\ mpc = "aggregate"
    /\ IF AllOk(tests.val)
       THEN /\ mpc' = "returned_ok"
            /\ UNCHANGED report
       ELSE LET lines == FailureReport(tests.val)
            IN  \E written \in 0..Len(lines) :
                    /\ report' = SubSeq(lines, 1, written)
                    /\ mpc' = IF written = Len(lines) THEN "exited_1" ELSE "returned_err"
    /\ UNCHANGED <<hes, kib, imageVars, ntargets, tests, tpc, child, exit_status, serial, calls,
                   killer, task_result>>

Next ==
    \/ \E t \in Targets : Spawn(t)
    \/ \E t \in Targets : Skip(t)
    \/ \E t \in Targets : ChildExits(t)
    \/ \E t \in Targets : WaitTimeout(t)
    \/ \E t \in Targets : Kill(t)
    \/ \E t \in Targets : Wait(t)
    \/ \E t \in Targets : ReadOutput(t)
    \/ Collect
    \/ Aggregate

Spec == Init /\ [][Next]_vars

(***************************************************************************)
(* create_kernel_info_block.  A u64 is the sequence of its four 16-bit     *)
(* limbs, lowest first, so that every number stays below 2^31.             *)
(***************************************************************************)
BLOCK_SIZE == 512
LIMB == 65536

\* the u64 of a number below 2^31
U64(n) == <<n % LIMB, n \div LIMB, 0, 0>>

\* a <= b on u64
RECURSIVE LeqFrom(_, _, _)
LeqFrom(a, b, i) ==
    IF i = 0 THEN TRUE
    ELSE IF a[i] # b[i] THEN a[i] < b[i]
    ELSE LeqFrom(a, b, i - 1)
LeqU64(a, b) == LeqFrom(a, b, 4)

\* u64::from(u32::max_value())
U32_MAX == <<LIMB - 1, LIMB - 1, 0, 0>>

\* x as u32: the low 32 bits, as two limbs
AsU32(x) == <<x[1], x[2]>>

Zeros(n) == [i \in 1..n |-> 0]

\* WriteU32LE with the bytes in big-endian order
WriteU32LE_BigEndian(buf, from, v) ==
    [i \in 1..Len(buf) |->
        CASE i = from + 1 -> v[2] \div 256
          [] i = from + 2 -> v[2] % 256
          [] i = from + 3 -> v[1] \div 256
          [] i = from + 4 -> v[1] % 256
          [] OTHER -> buf[i]]

\* LittleEndian::write_u32(&mut buf[from..from + 4], v), from counted from 0
WriteU32LE(buf, from, v) ==
    [i \in 1..Len(buf) |->
        CASE i = from + 1 -> v[1] % 256
          [] i = from + 2 -> v[1] \div 256
          [] i = from + 3 -> v[2] % 256
          [] i = from + 4 -> v[2] \div 256
          [] OTHER -> buf[i]]

Panic == [panic |-> TRUE]
Returned(v) == [panic |-> FALSE, val |-> v]

\* KernelSizeFits without the check: the cast truncates
KernelSizeFits_Unchecked(kernel_size) == TRUE

\* the first if: the kernel size fits, or the panic
KernelSizeFits(kernel_size) == LeqU64(kernel_size, U32_MAX)

\* the second if: no package, or its size fits, or the panic
PackageSizeFits(maybe_package_size) ==
    maybe_package_size.some => LeqU64(maybe_package_size.val, U32_MAX)

create_kernel_info_block(kernel_size, maybe_package_size) ==
    IF ~KernelSizeFits(kernel_size) THEN Panic
    ELSE IF ~PackageSizeFits(maybe_package_size) THEN Panic
    ELSE LET k32 == AsU32(kernel_size)
             p32 == IF maybe_package_size.some
                    THEN AsU32(maybe_package_size.val)
                    ELSE <<0, 0>>
             zeroed == Zeros(BLOCK_SIZE)
             with_kernel == WriteU32LE(zeroed, 0, k32)
         IN  Returned(WriteU32LE(with_kernel, 8, p32))

\* the sizes tried: every limb 0, 1, 0x0102 or 0xffff
LimbValues == {0, 1, 258, LIMB - 1}
KernelSizes == {<<a, b, c, d>> : a \in LimbValues, b \in LimbValues,
                                  c \in {0, 1, LIMB - 1}, d \in {0, LIMB - 1}}
PackageSizes ==
    {None} \cup {Some(<<a, b, c, 0>>) : a \in {0, 258, LIMB - 1}, b \in {0, 258, LIMB - 1},
                                         c \in {0, 1}}

InitInfoBlock == hes = HesIdle /\ RunnerIdle /\ kib = KibIdle /\ ImageIdle

KibCall ==
    /\ ~kib.called
    /\ \E kernel_size \in KernelSizes, maybe_package_size \in PackageSizes :
        kib' = [called |-> TRUE, kernel_size |-> kernel_size,
                maybe_package_size |-> maybe_package_size,
                ret |-> create_kernel_info_block(kernel_size, maybe_package_size)]
    /\ UNCHANGED <<decodeVars, runnerVars, imageVars>>

KibReturn ==
    /\ kib.called
    /\ kib' = KibIdle
    /\ UNCHANGED <<decodeVars, runnerVars, imageVars>>

NextInfoBlock == KibCall \/ KibReturn

SpecInfoBlock == InitInfoBlock /\ [][NextInfoBlock]_vars

(***************************************************************************)
(* build_impl from the sizes on, and create_disk_image.  A file is its     *)
(* size (a u64) and the seed of its content; the output file is the        *)
(* sequence of its bytes.                                                  *)
(***************************************************************************)
\* let mut buffer = [0u8; 1024]
BufferSize == 1024

FileOf(n, seed) == [size |-> U64(n), seed |-> seed]
\* the length of a file of less than 2^31 bytes
FileLen(f) == f.size[1] + LIMB * f.size[2]
\* the byte at offset i
FileByte(f, i) == (7 * i + f.seed) % 251
\* the n bytes from offset from
FileBytes(f, from, n) == [k \in 1..n |-> FileByte(f, from + k - 1)]

\* the inputs of a build
SmallLens == {b * BLOCK_SIZE + r : b \in 0..MaxBlocks, r \in {0, 1, BLOCK_SIZE - 1}}
HugeSizes == {<<0, 0, 1, 0>>, <<1, 0, 1, 0>>, <<0, 0, 0, 1>>}
KernelFiles ==
    {FileOf(n, 1) : n \in SmallLens} \cup {[size |-> h, seed |-> 1] : h \in HugeSizes}
PackageFiles ==
    {FileOf(n, 2) : n \in {0, 700}} \cup {[size |-> <<0, 0, 1, 0>>, seed |-> 2]}
MinimumSizes == {None} \cup {Some(m) : m \in {1024, 5000}}
BootloaderSections == {[k \in 1..n |-> (5 * k + 3) % 251] : n \in {0, 3, BLOCK_SIZE}}
OldImage == <<9, 9, 9>>

InitImage ==
    /\ hes = HesIdle /\ RunnerIdle /\ kib = KibIdle
    /\ ipc = "sample_sizes"
    /\ kernel \in KernelFiles
    /\ maybe_package \in {None} \cup {Some(f) : f \in PackageFiles}
    /\ minimum_image_size \in MinimumSizes
    /\ bi_kernel_size = None /\ bi_package_size = None
    /\ kernel_info_block = None /\ bootloader_data = <<>>
    /\ old_output \in {None, Some(OldImage)}
    /\ output_file = old_output
    /\ copy = NoCopy /\ segments = <<>> /\ before_min = None

otherVars == <<decodeVars, runnerVars, infoVars>>
inputVars == <<kernel, maybe_package, minimum_image_size, old_output>>

\* file.metadata()?.len() of the package and of the kernel
SampleSizes ==
    /\ ipc = "sample_sizes"
    /\ \/ /\ bi_package_size' = IF maybe_package.some
                                THEN Some(maybe_package.val.size)
                                ELSE None
          /\ bi_kernel_size' = Some(kernel.size)
          /\ ipc' = "info_block"
       \/ /\ ipc' = "returned_err"
          /\ UNCHANGED <<bi_package_size, bi_kernel_size>>
    /\ UNCHANGED <<otherVars, inputVars, kernel_info_block, bootloader_data,
                   output_file, copy, segments, before_min>>

\* let kernel_info_block = create_kernel_info_block(kernel_size, maybe_package_size)
InfoBlock ==
    /\ ipc = "info_block"
    /\ LET r == create_kernel_info_block(bi_kernel_size.val, bi_package_size)
       IN  IF r.panic
           THEN /\ ipc' = "panicked"
                /\ UNCHANGED kernel_info_block
           ELSE /\ ipc' = "build_bootloader"
                /\ kernel_info_block' = Some(r.val)
    /\ UNCHANGED <<otherVars, inputVars, bi_kernel_size, bi_package_size,
                   bootloader_data, output_file, copy, segments, before_min>>

\* build_bootloader(..)?
BuildBootloader ==
    /\ ipc = "build_bootloader"
    /\ \/ /\ bootloader_data' \in BootloaderSections
          /\ ipc' = "create"
       \/ /\ ipc' = "returned_err"
          /\ UNCHANGED bootloader_data
    /\ UNCHANGED <<otherVars, inputVars, bi_kernel_size, bi_package_size,
                   kernel_info_block, output_file, copy, segments, before_min>>

\* File::create(&output_path)?
CreateOutput ==
    /\ ipc = "create"
    /\ \/ /\ output_file' = Some(<<>>)
          /\ ipc' = "write_bootloader"
       \/ /\ ipc' = "returned_err"
          /\ UNCHANGED output_file
    /\ UNCHANGED <<otherVars, inputVars, bi_kernel_size, bi_package_size,
                   kernel_info_block, bootloader_data, copy, segments, before_min>>

\* write_all(data): all of it, or an error after none or half of it
WriteAll(file, data) ==
    {[ok |-> TRUE, file |-> file \o data]}
        \cup {[ok |-> FALSE, file |-> file \o SubSeq(data, 1, n)] : n \in {0, Len(data) \div 2}}

\* output.write_all(&bootloader_data)?
WriteBootloader ==
    /\ ipc = "write_bootloader"
    /\ \E w \in WriteAll(output_file.val, bootloader_data) :
        /\ output_file' = Some(w.file)
        /\ ipc' = IF w.ok THEN "write_info_block" ELSE "returned_err"
    /\ UNCHANGED <<otherVars, inputVars, bi_kernel_size, bi_package_size,
                   kernel_info_block, bootloader_data, copy, segments, before_min>>

\* output.write_all(&kernel_info_block)?
WriteInfoBlock ==
    /\ ipc = "write_info_block"
    /\ \E w \in WriteAll(output_file.val, kernel_info_block.val) :
        /\ output_file' = Some(w.file)
        /\ ipc' = IF w.ok THEN "open_kernel" ELSE "returned_err"
    /\ UNCHANGED <<otherVars, inputVars, bi_kernel_size, bi_package_size,
                   kernel_info_block, bootloader_data, copy, segments, before_min>>

DataFiles == {"kernel", "package"}
Datafile(which) == IF which = "kernel" THEN kernel ELSE maybe_package.val
OpenPc(which) == IF which = "kernel" THEN "open_kernel" ELSE "open_package"
CopyPc(which) == IF which = "kernel" THEN "copy_kernel" ELSE "copy_package"
PadPc(which) == IF which = "kernel" THEN "pad_kernel" ELSE "pad_package"

\* write_file_to_file: let data_size = datafile.metadata()?.len()
StartCopy(which) ==
    /\ ipc = OpenPc(which)
    /\ \/ /\ copy' = [data_size |-> FileLen(Datafile(which)), acc |-> 0, pos |-> 0,
                      interrupted |-> 0]
          /\ ipc' = CopyPc(which)
       \/ /\ ipc' = "returned_err"
          /\ UNCHANGED copy
    /\ UNCHANGED <<otherVars, inputVars, bi_kernel_size, bi_package_size,
                   kernel_info_block, bootloader_data, output_file, segments, before_min>>

\* how many bytes a read with bytes left can return
ReadSizes(remaining) ==
    {IF remaining < BufferSize THEN remaining ELSE BufferSize,
     IF remaining < ShortRead THEN remaining ELSE ShortRead}

\* AssertHolds with the assert compiled out
AssertHolds_Unchecked(data_size, acc) == TRUE

\* assert!(data_size == acc as u64)
AssertHolds(data_size, acc) == data_size = acc

\* write_file_to_file: one turn of the loop, and after it the assert.  A read
\* at or past the end of the file returns Ok(0).
ReadDatafile(which) ==
    /\ ipc = CopyPc(which)
    /\ LET f == Datafile(which)
           remaining == FileLen(f) - copy.pos
       IN  \/ /\ remaining <= 0
              /\ ipc' = IF AssertHolds(copy.data_size, copy.acc)
                        THEN PadPc(which)
                        ELSE "panicked"
              /\ UNCHANGED <<copy, output_file>>
           \/ /\ remaining > 0
              /\ \E n \in ReadSizes(remaining) :
                 \E w \in WriteAll(output_file.val, FileBytes(f, copy.pos, n)) :
                    /\ copy' = [copy EXCEPT !.acc = @ + n, !.pos = @ + n]
                    /\ output_file' = Some(w.file)
                    /\ ipc' = IF w.ok THEN ipc ELSE "returned_err"
           \/ /\ copy.interrupted < MaxInterrupts
              /\ copy' = [copy EXCEPT !.interrupted = @ + 1]
              /\ UNCHANGED <<ipc, output_file>>
           \/ /\ ipc' = "returned_err"
              /\ UNCHANGED <<copy, output_file>>
    /\ UNCHANGED <<otherVars, inputVars, bi_kernel_size, bi_package_size,
                   kernel_info_block, bootloader_data, segments, before_min>>

\* PaddingSize without the subtraction
PaddingSize_Remainder(written_size, padding_len) ==
    written_size % padding_len

\* PaddingSize without the outer remainder: a whole block after an aligned file
PaddingSize_WholeBlock(written_size, padding_len) ==
    padding_len - (written_size % padding_len)

\* pad_file: let padding_size = ..
PaddingSize(written_size, padding_len) ==
    (padding_len - (written_size % padding_len)) % padding_len

\* pad_file(&mut output, written_size, &[0; 512])?
PadFile(which) ==
    /\ ipc = PadPc(which)
    /\ LET padding == Zeros(BLOCK_SIZE)
           padding_size == PaddingSize(copy.acc, Len(padding))
       IN  \E w \in WriteAll(output_file.val, SubSeq(padding, 1, padding_size)) :
              /\ output_file' = Some(w.file)
              /\ IF w.ok
                 THEN /\ segments' = Append(segments,
                            [file |-> which, written |-> copy.acc,
                             copied_to |-> Len(output_file.val),
                             padded_to |-> Len(w.file)])
                      /\ ipc' = IF which = "kernel" /\ maybe_package.some
                                THEN "open_package"
                                ELSE "min_size"
                 ELSE /\ ipc' = "returned_err"
                      /\ UNCHANGED segments
    /\ UNCHANGED <<otherVars, inputVars, bi_kernel_size, bi_package_size,
                   kernel_info_block, bootloader_data, copy, before_min>>

\* File::set_len: cut, or extended with zero bytes
SetLen(file, size) ==
    IF size <= Len(file) THEN SubSeq(file, 1, size)
    ELSE file \o Zeros(size - Len(file))

\* ShorterThan with the comparison the wrong way round
ShorterThan_Flipped(file, min_size) == Len(file) > min_size

\* output.metadata()?.len() < min_size
ShorterThan(file, min_size) == Len(file) < min_size

\* if let Some(min_size) = config.minimum_image_size { .. }  Ok(output_path)
MinimumSize ==
    /\ ipc = "min_size"
    /\ before_min' = Some(output_file.val)
    /\ \/ /\ output_file' =
                IF /\ minimum_image_size.some
                   /\ ShorterThan(output_file.val, minimum_image_size.val)
                THEN Some(SetLen(output_file.val, minimum_image_size.val))
                ELSE output_file
          /\ ipc' = "returned_ok"
       \/ /\ minimum_image_size.some
          /\ ipc' = "returned_err"
          /\ UNCHANGED output_file
    /\ UNCHANGED <<otherVars, inputVars, bi_kernel_size, bi_package_size,
                   kernel_info_block, bootloader_data, copy, segments>>

NextImage ==
    \/ SampleSizes
    \/ InfoBlock
    \/ BuildBootloader
    \/ CreateOutput
    \/ WriteBootloader
    \/ WriteInfoBlock
    \/ \E which \in DataFiles : StartCopy(which)
    \/ \E which \in DataFiles : ReadDatafile(which)
    \/ \E which \in DataFiles : PadFile(which)
    \/ MinimumSize

SpecImage == InitImage /\ [][NextImage]_vars

(***************************************************************************)
(* The same build while another process changes the length of the kernel   *)
(* file or of the package file (SpecChangingFiles).  In SpecImage the two  *)
(* files stay as they are for the whole build.  build_impl holds both      *)
(* files open from lines 97 and 100 on; metadata() and read() on an open   *)
(* file see the file as it is at the time of the call.                     *)
(***************************************************************************)
\* the lengths the two files have and are changed to
ChangingLens == {BLOCK_SIZE, BufferSize + 1}

InitChangingFiles ==
    /\ hes = HesIdle /\ RunnerIdle /\ kib = KibIdle
    /\ ipc = "sample_sizes"
    /\ kernel \in {FileOf(n, 1) : n \in ChangingLens}
    /\ maybe_package \in {None} \cup {Some(FileOf(n, 2)) : n \in ChangingLens}
    /\ minimum_image_size = None
    /\ bi_kernel_size = None /\ bi_package_size = None
    /\ kernel_info_block = None /\ bootloader_data = <<>>
    /\ old_output = None
    /\ output_file = old_output
    /\ copy = NoCopy /\ segments = <<>> /\ before_min = None

\* where a change of the file's length is placed.  Between the sampling of
\* the sizes (lines 105-114) and the call of write_file_to_file the build
\* does not look at the file, so a change made anywhere in between is the
\* same to it as one made right before line 380; after its last read (line
\* 384) the build does not look at the file again.
ReadsAhead(which) == {OpenPc(which), CopyPc(which)}

\* another process truncates or extends the file between two steps of the build
ChangeLength(which) ==
    /\ ipc \in ReadsAhead(which)
    /\ which = "package" => maybe_package.some
    /\ \E n \in ChangingLens :
        /\ n # FileLen(Datafile(which))
        /\ IF which = "kernel"
           THEN /\ kernel' = FileOf(n, kernel.seed)
                /\ UNCHANGED maybe_package
           ELSE /\ maybe_package' = Some(FileOf(n, maybe_package.val.seed))
                /\ UNCHANGED kernel
    /\ UNCHANGED <<otherVars, minimum_image_size, old_output, ipc, bi_kernel_size,
                   bi_package_size, kernel_info_block, bootloader_data,
                   output_file, copy, segments, before_min>>

NextChangingFiles ==
    \/ SampleSizes
    \/ InfoBlock
    \/ BuildBootloader
    \/ CreateOutput
    \/ WriteBootloader
    \/ WriteInfoBlock
    \/ \E which \in DataFiles : StartCopy(which)
    \/ \E which \in DataFiles : ReadDatafile(which)
    \/ \E which \in DataFiles : PadFile(which)
    \/ MinimumSize
    \/ \E which \in DataFiles : ChangeLength(which)

\* the build is one thread that runs until it returns or panics: each of its
\* steps is taken once it can be; nothing makes the other process act
SpecChangingFiles ==
    InitChangingFiles /\ [][NextChangingFiles]_vars /\ WF_vars(NextImage)

(***************************************************************************)
(* Properties of the test command (Spec).                                  *)
(***************************************************************************)
\* the aggregate step has started
Aggregating == mpc \in {"aggregate", "returned_ok", "exited_1"} \/ (mpc = "returned_err" /\ tests.some)
\* the test command has ended
Ended == mpc \in {"returned_ok", "exited_1", "returned_err"}
\* the report lines that name target t
LinesAbout(t) ==
    {i \in 1..Len(report) :
        StartsWith(report[i], IndentLine(TargetName(t) \o <<":", " ">>))}
\* one of the calls task t made failed
SomeCallFailed(t) == \E i \in 1..Len(calls[t]) : ~calls[t][i].ok
\* task t's wait_timeout returned None
TimedOutTask(t) == Len(calls[t]) >= 3 /\ calls[t][3].call = "kill"

\* C2: the test command ends with success iff every target's verdict is Ok;
\* a run that ends in the aggregate step's process::exit(1) has a target
\* that is not Ok and wrote one line per target that is not Ok and none for
\* an Ok target.
C2_ExitStatus ==
    /\ mpc = "returned_ok" =>
          /\ \A t \in Targets : task_result[t] = "Ok"
          /\ report = <<>>
    /\ (Ended /\ \A t \in Targets : task_result[t] = "Ok") => mpc = "returned_ok"
    /\ mpc = "exited_1" =>
          /\ \A t \in Targets : task_result[t] \in TestResult
          /\ \E t \in Targets : task_result[t] # "Ok"
          /\ report[1] = TheFollowingTestsFailed
          /\ Len(report) = 1 + Cardinality({t \in Targets : task_result[t] # "Ok"})
          /\ \A t \in Targets :
                Cardinality(LinesAbout(t)) = (IF task_result[t] = "Ok" THEN 0 ELSE 1)
          /\ \A t \in Targets : task_result[t] # "Ok" =>
                \E i \in 2..Len(report) :
                    report[i] = IndentLine(TargetName(t) \o <<":", " ">>
                                               \o DebugName(task_result[t]))

\* C2 witness: two targets, one Ok and one Failed, ended in process::exit(1)
C2_Witness ==
    /\ mpc = "exited_1"
    /\ ntargets >= 2
    /\ task_result[1] = "Ok"
    /\ task_result[2] = "Failed"

\* C3: when a task has ended, its QEMU process is neither running nor
\* unreaped, on every path (Ok or Err) by which the closure returns.
C3_NoChildLeft ==
    \A t \in Targets : tpc[t] = "done" => child[t] \in {"none", "reaped"}

\* C4: the aggregate step runs only after every target has a verdict, the
\* collection holds one verdict per target, a target's verdict is that of
\* its own process (TimedOut iff its own wait timed out, else the
\* classification of its own exit code and serial text), a process is killed
\* only by its own task, a task returns an error only when one of its own
\* calls failed and a task is skipped only after such a failure (never
\* because of a verdict), and with one target TimedOut and the others Ok
\* the results are one TimedOut and N-1 Ok and the command does not succeed.
C4_Independent ==
    /\ Aggregating =>
          /\ \A t \in Targets : tpc[t] = "done" /\ task_result[t] \in TestResult
          /\ Len(tests.val) = ntargets
          /\ \A t \in Targets :
                tests.val[t] = [name |-> TargetName(t), result |-> task_result[t]]
    /\ \A t \in Targets :
          /\ killer[t] \in {0, t}
          /\ task_result[t] = "Err" <=> SomeCallFailed(t)
          /\ tpc[t] = "skipped" => \E u \in Targets : SomeCallFailed(u)
          /\ task_result[t] \in TestResult =>
                task_result[t] =
                    (IF TimedOutTask(t) THEN "TimedOut"
                     ELSE handle_exit_status(exit_status[t].val, serial[t],
                                             TargetName(t)).result)
    /\ (/\ Ended
        /\ ntargets >= 1
        /\ \A t \in Targets : tpc[t] = "done" /\ task_result[t] # "Err"
        /\ \E t \in Targets :
              /\ TimedOutTask(t)
              /\ \A u \in Targets \ {t} :
                    /\ ~TimedOutTask(u)
                    /\ handle_exit_status(exit_status[u].val, serial[u],
                                          TargetName(u)).result = "Ok")
       => /\ mpc # "returned_ok"
          /\ Cardinality({t \in Targets : tests.val[t].result = "TimedOut"}) = 1
          /\ Cardinality({t \in Targets : tests.val[t].result = "Ok"}) = ntargets - 1

\* C4 witness: two or more targets, the last one TimedOut and the others
\* Ok, ended in process::exit(1)
C4_Witness ==
    /\ mpc = "exited_1"
    /\ ntargets >= 2
    /\ task_result[ntargets] = "TimedOut"
    /\ \A t \in 1..(ntargets - 1) : task_result[t] = "Ok"

(***************************************************************************)
(* Properties of create_kernel_info_block (SpecInfoBlock).                 *)
(***************************************************************************)
\* bytes [from, from + 4) of a block decode as little-endian u32 to the
\* 32-bit value with limbs v
DecodesTo(block, from, v) ==
    /\ block[from + 1] \in 0..255 /\ block[from + 2] \in 0..255
    /\ block[from + 3] \in 0..255 /\ block[from + 4] \in 0..255
    /\ block[from + 1] + 256 * block[from + 2] = v[1]
    /\ block[from + 3] + 256 * block[from + 4] = v[2]
\* the value is at most 2^32 - 1: its two high limbs are zero
FitsU32(x) == x[3] = 0 /\ x[4] = 0

\* C8: for a kernel size s and an optional package size q, both at most
\* 2^32 - 1, create_kernel_info_block returns a block of 512 bytes whose
\* bytes [0,4) decode as little-endian u32 to s, bytes [8,12) to q (0 with
\* no package), and whose every other byte is zero.
C8_InfoBlockLayout ==
    (/\ kib.called
     /\ FitsU32(kib.kernel_size)
     /\ kib.maybe_package_size.some => FitsU32(kib.maybe_package_size.val))
    => /\ ~kib.ret.panic
       /\ Len(kib.ret.val) = 512
       /\ DecodesTo(kib.ret.val, 0, <<kib.kernel_size[1], kib.kernel_size[2]>>)
       /\ IF kib.maybe_package_size.some
          THEN DecodesTo(kib.ret.val, 8, <<kib.maybe_package_size.val[1],
                                            kib.maybe_package_size.val[2]>>)
          ELSE DecodesTo(kib.ret.val, 8, <<0, 0>>)
       /\ \A i \in (5..8) \cup (13..512) : kib.ret.val[i] = 0

\* C8 witness: kernel size 2^32 - 1 and package size 0x01020102 were encoded
C8_Witness ==
    /\ kib.called
    /\ kib.kernel_size = <<65535, 65535, 0, 0>>
    /\ kib.maybe_package_size = Some(<<258, 258, 0, 0>>)
    /\ ~kib.ret.panic
    /\ SubSeq(kib.ret.val, 1, 12) = <<255, 255, 255, 255, 0, 0, 0, 0, 2, 1, 2, 1>>

(***************************************************************************)
(* Properties of build_impl and create_disk_image (SpecImage).             *)
(***************************************************************************)
\* the padding after n bytes: the p in 0..511 with n + p a multiple of 512
PadTo512(n) == CHOOSE p \in 0..511 : (n + p) % 512 = 0
\* a file's bytes followed by its padding
PaddedSegment(f) == FileBytes(f, 0, FileLen(f)) \o Zeros(PadTo512(FileLen(f)))
\* the image before any extension to the minimum size
NaturalImage ==
    bootloader_data \o kernel_info_block.val \o PaddedSegment(kernel)
        \o (IF maybe_package.some THEN PaddedSegment(maybe_package.val) ELSE <<>>)
\* bytes from + 1 .. to of the output file are zero
ZeroBetween(from, to) == \A i \in (from + 1)..to : output_file.val[i] = 0

\* C5 as stated: after a successful create_disk_image every variable-length
\* segment (bootloader section, kernel, package) is followed by zero padding
\* that brings the running total file length to a multiple of 512.
C5_RunningTotalAligned ==
    ipc = "returned_ok" =>
        /\ Len(bootloader_data) % 512 = 0
        /\ \A i \in 1..Len(segments) :
              /\ segments[i].padded_to % 512 = 0
              /\ ZeroBetween(segments[i].copied_to, segments[i].padded_to)

\* C5 amended: after a successful create_disk_image the kernel and the
\* package are each followed by fewer than 512 zero bytes that bring the
\* segment's length, and so the bytes written since the end of the
\* bootloader section, to a multiple of 512; the bootloader section gets no
\* padding, and the running total is a multiple of 512 exactly when the
\* bootloader section's length is.
C5_SegmentAligned ==
    ipc = "returned_ok" =>
        /\ Len(segments) = (IF maybe_package.some THEN 2 ELSE 1)
        /\ segments[1].copied_to = Len(bootloader_data) + 512 + segments[1].written
        /\ \A i \in 1..Len(segments) :
              LET seg == segments[i]
              IN  /\ seg.written = FileLen(Datafile(seg.file))
                  /\ seg.padded_to - seg.copied_to \in 0..511
                  /\ (seg.written + (seg.padded_to - seg.copied_to)) % 512 = 0
                  /\ (seg.padded_to - Len(bootloader_data)) % 512 = 0
                  /\ ZeroBetween(seg.copied_to, seg.padded_to)
                  /\ (seg.padded_to % 512 = 0) <=> (Len(bootloader_data) % 512 = 0)
                  /\ i > 1 => seg.copied_to = segments[i - 1].padded_to + seg.written

\* C5 witness: a kernel of 513 bytes and a package of 700 bytes after a
\* bootloader section of 3 bytes
C5_Witness ==
    /\ ipc = "returned_ok"
    /\ Len(bootloader_data) = 3
    /\ Len(segments) = 2
    /\ segments[1].written = 513
    /\ segments[2].written = 700

\* C6: the output starts with the bootloader bytes, the info block, the
\* kernel bytes, p zero bytes (0 <= p < 512, kernel length + p a multiple
\* of 512, p = 0 for an aligned kernel) and, with a package, the package
\* bytes and its padding, with nothing in between; with no minimum size
\* that is the whole file.
C6_Layout ==
    ipc = "returned_ok" =>
        LET out == output_file.val
            B == Len(bootloader_data)
            K == FileLen(kernel)
        IN  /\ Len(out) >= Len(NaturalImage)
            /\ SubSeq(out, 1, Len(NaturalImage)) = NaturalImage
            /\ SubSeq(out, 1, B + 512) = bootloader_data \o kernel_info_block.val
            /\ \A i \in 1..K : out[B + 512 + i] = FileByte(kernel, i - 1)
            /\ K % 512 = 0 => segments[1].padded_to = B + 512 + K
            /\ ~minimum_image_size.some => out = NaturalImage

\* C6 witness: an aligned kernel of 1024 bytes, a package, no minimum size
C6_Witness ==
    /\ ipc = "returned_ok"
    /\ FileLen(kernel) = 1024
    /\ maybe_package.some /\ FileLen(maybe_package.val) = 700
    /\ Len(bootloader_data) = 512
    /\ ~minimum_image_size.some
    /\ Len(output_file.val) = 512 + 512 + 1024 + 1024

\* C7: with a minimum size m and a natural length n the final length is
\* max(n, m): for m <= n length and content are unchanged, for m > n the
\* file has m bytes, its first n bytes unchanged and bytes [n, m) zero; with
\* no minimum size the length is n.
C7_MinimumSize ==
    ipc = "returned_ok" =>
        LET out == output_file.val
            natural == before_min.val
            n == Len(natural)
        IN  IF minimum_image_size.some /\ minimum_image_size.val > n
            THEN /\ Len(out) = minimum_image_size.val
                 /\ SubSeq(out, 1, n) = natural
                 /\ ZeroBetween(n, minimum_image_size.val)
            ELSE out = natural

\* C7 witness: a natural length of 2048 bytes extended to 5000
C7_Witness ==
    /\ ipc = "returned_ok"
    /\ minimum_image_size = Some(5000)
    /\ Len(before_min.val) = 2048
    /\ Len(output_file.val) = 5000

\* the kernel size or the package size read from the metadata exceeds 2^32 - 1
SizeExceedsU32 ==
    \/ ~FitsU32(bi_kernel_size.val)
    \/ bi_package_size.some /\ ~FitsU32(bi_package_size.val)

\* C9: create_kernel_info_block returns no block when the kernel size or
\* the package size exceeds 2^32 - 1 (2^32 fails, 2^32 - 1 does not) and
\* never truncates; the build then stops before the output file is created:
\* the file at the output path is as it was before the build.
C9_OversizeFails ==
    /\ ipc = "info_block" =>
          /\ create_kernel_info_block(<<0, 0, 1, 0>>, bi_package_size).panic
          /\ create_kernel_info_block(bi_kernel_size.val, Some(<<0, 0, 1, 0>>)).panic
          /\ ~create_kernel_info_block(<<65535, 65535, 0, 0>>,
                                       Some(<<65535, 65535, 0, 0>>)).panic
    /\ (bi_kernel_size.some /\ SizeExceedsU32) =>
          /\ ipc \in {"info_block", "panicked"}
          /\ ~kernel_info_block.some
          /\ output_file = old_output
    /\ (bi_kernel_size.some /\ ~SizeExceedsU32 /\ copy = NoCopy) => ipc # "panicked"
    /\ kernel_info_block.some =>
          /\ DecodesTo(kernel_info_block.val, 0, <<kernel.size[1], kernel.size[2]>>)
          /\ kernel.size[3] = 0 /\ kernel.size[4] = 0

\* C9 witness: a kernel of exactly 2^32 bytes made the build panic and the
\* old image is still there
C9_Witness ==
    /\ ipc = "panicked"
    /\ kernel.size = <<0, 0, 1, 0>>
    /\ old_output = Some(OldImage)
    /\ output_file = Some(OldImage)

(***************************************************************************)
(* Properties of write_file_to_file and of the sizes in the info block     *)
(* while the files change (SpecChangingFiles).                             *)
(***************************************************************************)
\* write_file_to_file is in its loop
InCopy == ipc \in {CopyPc(which) : which \in DataFiles}
\* the file write_file_to_file is copying, or has just copied
Copied == IF ipc \in {"copy_kernel", "pad_kernel"} THEN "kernel" ELSE "package"
\* the length of the output when the copy began
CopyBegin ==
    IF Copied = "kernel" THEN Len(bootloader_data) + 512 ELSE segments[1].padded_to
\* the output holds, after what was there when the copy began, n bytes: the
\* first n bytes of the copied file
HoldsCopied(n) ==
    /\ Len(output_file.val) = CopyBegin + n
    /\ \A i \in 1..n : output_file.val[CopyBegin + i] = FileByte(Datafile(Copied), i - 1)

\* in the loop the output has grown by exactly the bytes counted; after a
\* successful return the bytes counted, and in the output, are as many as
\* the length read from the metadata
CountIsOutput ==
    /\ InCopy => HoldsCopied(copy.acc)
    /\ ipc \in {PadPc(which) : which \in DataFiles} =>
          /\ copy.acc = copy.data_size
          /\ HoldsCopied(copy.data_size)

\* one step of the loop: an interrupted read leaves the loop running and
\* changes neither the output nor the count nor the read position; a write
\* that did not take all the bytes read ends the copy with an error; the
\* loop is left only by a successful return with count = declared length,
\* by the failed assert with count # declared length, or by an error
LoopStep ==
    InCopy =>
        /\ copy'.interrupted # copy.interrupted =>
              /\ ipc' = ipc
              /\ output_file' = output_file
              /\ copy'.acc = copy.acc /\ copy'.pos = copy.pos
        /\ Len(output_file'.val) - Len(output_file.val) # copy'.acc - copy.acc =>
              ipc' = "returned_err"
        /\ ipc' # ipc =>
              /\ ipc' \in {PadPc(Copied), "panicked", "returned_err"}
              /\ ipc' = PadPc(Copied) => copy.acc = copy.data_size /\ copy' = copy
              /\ ipc' = "panicked" => copy.acc # copy.data_size
              /\ ipc' # "returned_err" => output_file' = output_file

\* C11: in write_file_to_file an interrupted read is retried and adds no
\* bytes to the output or to the count; any other read or write error ends
\* the copy with an error; the function returns successfully only with as
\* many bytes copied to the output as the length it read from the metadata,
\* and panics on a mismatch; with at most MaxInterrupts interruptions the
\* copy ends.
C11_CopyCountsAndEnds ==
    /\ []CountIsOutput
    /\ [][LoopStep]_vars
    /\ InCopy ~> ~InCopy

\* C11 witness: a kernel of more than one buffer was copied whole in several
\* reads, one of them interrupted, and write_file_to_file returned
C11_Witness ==
    /\ ipc = "pad_kernel"
    /\ copy.interrupted > 0
    /\ copy.data_size > BufferSize
    /\ copy.acc = copy.data_size
    /\ Len(output_file.val) = Len(bootloader_data) + 512 + copy.data_size

\* the 32-bit value n as two 16-bit limbs
Limbs32(n) == <<n % LIMB, n \div LIMB>>
\* the info block as it is in the image
ImageInfoBlock ==
    SubSeq(output_file.val, Len(bootloader_data) + 1, Len(bootloader_data) + 512)

\* C12: whenever build_impl returns the image path, bytes [0,4) of the
\* image's info block are the number of kernel bytes copied into the image
\* and bytes [8,12) the number of package bytes copied (0 with no package),
\* also when the length of a file changes between the sampling of the
\* sizes and the copy.
C12_InfoBlockIsCopiedSize ==
    ipc = "returned_ok" =>
        /\ DecodesTo(ImageInfoBlock, 0, Limbs32(segments[1].written))
        /\ DecodesTo(ImageInfoBlock, 8,
                     IF maybe_package.some THEN Limbs32(segments[2].written)
                     ELSE <<0, 0>>)

(***************************************************************************)
(* Properties of handle_exit_status (SpecDecode).                          *)
(***************************************************************************)
\* the markers, spelled out character by character
BeginsOkLine(t) == Len(t) >= 3 /\ t[1] = "o" /\ t[2] = "k" /\ t[3] = "\n"
FailedLineAt(t, i) ==
    /\ i + 7 <= Len(t)
    /\ t[i + 1] = "f" /\ t[i + 2] = "a" /\ t[i + 3] = "i" /\ t[i + 4] = "l"
    /\ t[i + 5] = "e" /\ t[i + 6] = "d" /\ t[i + 7] = "\n"
HasFailedLine(t) == \E i \in 0..Len(t) : FailedLineAt(t, i)
FirstFailedLine(t) == Min({i \in 0..Len(t) : FailedLineAt(t, i)})
\* the text after its first n characters
Rest(t, n) == [k \in 1..(Len(t) - n) |-> t[n + k]]
\* what follows the first line written to stderr
Diagnostic(ret) == Tail(ret.stderr)

\* C1: handle_exit_status classifies (exit code, serial text): no exit code
\* is Invalid; code 1 is Ok when the text starts with "ok\n", else Failed
\* when it starts with "failed\n", else Invalid; code 5 is Ok for every
\* text; code 7 is Failed for every text; every other code is Invalid; the
\* result is never TimedOut.
C1_Classification ==
    hes.called =>
        LET c == hes.exit_code
            t == hes.output
            r == hes.ret.result
        IN  /\ r \in {"Ok", "Failed", "Invalid"}
            /\ ~c.some => r = "Invalid"
            /\ (c.some /\ c.val = 1) =>
                   r = (IF BeginsOkLine(t) THEN "Ok"
                        ELSE IF FailedLineAt(t, 0) THEN "Failed"
                        ELSE "Invalid")
            /\ (c.some /\ c.val = 5) => r = "Ok"
            /\ (c.some /\ c.val = 7) => r = "Failed"
            /\ (c.some /\ c.val \notin {1, 5, 7}) => r = "Invalid"

\* C1 witness: code 7 with no "failed\n" marker in the text was classified Failed
C1_Witness ==
    /\ hes.called
    /\ hes.exit_code = Some(7)
    /\ ~HasFailedLine(hes.output)
    /\ hes.output # <<>>
    /\ hes.ret.result = "Failed"

\* C10 as stated: the Failed diagnostic is, for code 1 with a text starting
\* with "failed\n", the text after that marker; for code 7 with a marker,
\* the text from the first marker onward (the marker included); for code 7
\* without a marker, only the target name; the Invalid diagnostic is the
\* full text.
C10_FromMarkerOnward ==
    hes.called =>
        LET c == hes.exit_code
            t == hes.output
            ret == hes.ret
        IN  /\ (c = Some(1) /\ ret.result = "Failed") =>
                   Diagnostic(ret) = Indented(Lines(Rest(t, 7)))
            /\ (c = Some(7) /\ HasFailedLine(t)) =>
                   Diagnostic(ret) = Indented(Lines(Rest(t, FirstFailedLine(t))))
            /\ (c = Some(7) /\ ~HasFailedLine(t)) =>
                   ret.stderr = <<FailTarget(hes.target_name)>>
            /\ ret.result = "Invalid" =>
                   Diagnostic(ret) = Indented(Lines(t))

\* C10 amended: as C10, but for code 7 with a marker the diagnostic is the
\* text after the first marker (the marker itself is not written); every
\* diagnostic is written line by line, indented, under one "FAIL:" line.
C10_AfterMarker ==
    hes.called =>
        LET c == hes.exit_code
            t == hes.output
            ret == hes.ret
        IN  /\ (c = Some(1) /\ ret.result = "Failed") =>
                   /\ FailedLineAt(t, 0)
                   /\ ret.stderr = <<FAIL_>> \o Indented(Lines(Rest(t, 7)))
            /\ (c = Some(7) /\ HasFailedLine(t)) =>
                   /\ ret.result = "Failed"
                   /\ ret.stderr =
                        <<FAIL_>> \o Indented(Lines(Rest(t, FirstFailedLine(t) + 7)))
            /\ (c = Some(7) /\ ~HasFailedLine(t)) =>
                   /\ ret.result = "Failed"
                   /\ ret.stderr = <<FailTarget(hes.target_name)>>
            /\ ret.result = "Invalid" =>
                   /\ Len(ret.stderr) >= 1
                   /\ Diagnostic(ret) = Indented(Lines(t))
            /\ ret.result = "Ok" => ret.stderr = <<>>

\* C10 witness: code 7, a marker after other text, and text after the marker
C10_Witness ==
    /\ hes.called
    /\ hes.exit_code = Some(7)
    /\ HasFailedLine(hes.output)
    /\ FirstFailedLine(hes.output) > 0
    /\ Diagnostic(hes.ret) = <<IndentLine(<<"X">>)>>

====
